---------------------------- MODULE Spec2Model ----------------------------
(***************************************************************************)
(* Working memory of agent-memory-server                                   *)
(* (src/agent_memory_server/working_memory.py): list_sessions,             *)
(* get_working_memory, set_working_memory, delete_working_memory and       *)
(* _reconstruct_working_memory_from_long_term, over a key-value store with *)
(* expiring keys, a per-namespace ordered session index and a long-term    *)
(* memory search.                                                          *)
(*                                                                         *)
(* Time is counted in ticks, TicksPerSecond ticks to the second, so that a *)
(* datetime can carry a fraction of a second and int(dt.timestamp()) is a  *)
(* real truncation.                                                        *)
(***************************************************************************)
EXTENDS Integers, Sequences, FiniteSets, TLC

VARIABLES
    now,        \* the wall clock, in ticks
    store,      \* the key-value store: key -> Absent or [val, exp]
    index,      \* the session index: namespace -> ordered sequence of session ids
    ltm,        \* long-term memory: a set of memory records
    reconstructEnabled, \* settings.index_all_messages_in_long_term_memory
    pipe,       \* the list_sessions call in flight: its pipeline and replies
    inflight,   \* the set_working_memory calls awaiting their store command
    last        \* the most recent call or event: its arguments and outcome

vars == <<now, store, index, ltm, reconstructEnabled, pipe, inflight, last>>

-----------------------------------------------------------------------------
(* Bounds of the model *)

TicksPerSecond == 2
MaxClock == 3
MaxLtm == 3
MaxIndex == 3
MaxInflight == 2

\* Python's None, for an optional string.
None == "None"

\* An optional number or record is a sequence of at most one element.
Nothing == <<>>

Some(x) == <<x>>

IsSome(o) == o /= <<>>

Value(o) == o[1]

-----------------------------------------------------------------------------
(* Sequences *)

Range(s) == {s[i] : i \in DOMAIN s}

Min(a, b) == IF a <= b THEN a ELSE b

Max(a, b) == IF a >= b THEN a ELSE b

\* All sequences without repetition over S of length at most n.
RECURSIVE SeqsUpTo(_, _)
SeqsUpTo(S, n) ==
    IF n = 0 THEN {<<>>}
    ELSE LET shorter == SeqsUpTo(S, n - 1)
         IN  shorter \cup {Append(q, x) : q \in {p \in shorter : Len(p) = n - 1},
                                           x \in S}

NoRepeat(s) == \A i, j \in DOMAIN s : i /= j => s[i] /= s[j]

\* Python's s[-n:] for n > 0.
LastN(s, n) == IF Len(s) <= n THEN s ELSE SubSeq(s, Len(s) - n + 1, Len(s))

\* Python's s[:n] for n >= 0.
FirstN(s, n) == IF Len(s) <= n THEN s ELSE SubSeq(s, 1, n)

Reverse(s) == [i \in 1..Len(s) |-> s[Len(s) + 1 - i]]

\* list.sort(key=created_at): stable, ascending.
RECURSIVE SortAscending(_)
SortAscending(s) ==
    IF Len(s) <= 1 THEN s
    ELSE LET init == SortAscending(SubSeq(s, 1, Len(s) - 1))
             x == s[Len(s)]
             k == Cardinality({i \in DOMAIN init : init[i].created_at <= x.created_at})
         IN  SubSeq(init, 1, k) \o <<x>> \o SubSeq(init, k + 1, Len(init))

\* list.sort(key=created_at, reverse=True): stable, descending.
RECURSIVE SortDescending(_)
SortDescending(s) ==
    IF Len(s) <= 1 THEN s
    ELSE LET init == SortDescending(SubSeq(s, 1, Len(s) - 1))
             x == s[Len(s)]
             k == Cardinality({i \in DOMAIN init : init[i].created_at >= x.created_at})
         IN  SubSeq(init, 1, k) \o <<x>> \o SubSeq(init, k + 1, Len(init))

Chronological(s) ==
    \A i, j \in DOMAIN s : i < j => s[i].created_at <= s[j].created_at

-----------------------------------------------------------------------------
(* Data model: datetimes, messages, memory records, documents *)

\* int(dt.timestamp()): the epoch seconds of a datetime, fraction dropped.
EpochSeconds(t) == t \div TicksPerSecond

\* datetime.fromtimestamp(seconds, UTC)
FromTimestamp(sec) == sec * TicksPerSecond

\* datetime.isoformat() as pydantic's model_dump(mode="json") writes it: the
\* whole seconds and the fraction, both kept.
IsoFormat(t) == <<t \div TicksPerSecond, t % TicksPerSecond>>

\* pydantic's parse of an ISO datetime string
ParseIso(w) == w[1] * TicksPerSecond + w[2]

\* An optional datetime (persisted_at), written and read the same way.
IsoFormatOptional(o) == IF IsSome(o) THEN Some(IsoFormat(Value(o))) ELSE Nothing

ParseIsoOptional(o) == IF IsSome(o) THEN Some(ParseIso(Value(o))) ELSE Nothing

\* MemoryMessage.model_dump(mode="json")
DumpMessage(m) ==
    [id |-> m.id, role |-> m.role, content |-> m.content,
     created_at |-> IsoFormat(m.created_at),
     persisted_at |-> IsoFormatOptional(m.persisted_at)]

\* MemoryMessage(**message_data)
LoadMessage(w) ==
    [id |-> w.id, role |-> w.role, content |-> w.content,
     created_at |-> ParseIso(w.created_at),
     persisted_at |-> ParseIsoOptional(w.persisted_at)]

\* MemoryRecord.model_dump(mode="json")
DumpMemory(m) == [id |-> m.id, text |-> m.text]

\* MemoryRecord(**memory_data)
LoadMemory(w) == [id |-> w.id, text |-> w.text]

\* MemoryStrategyConfig.model_dump()
DumpStrategy(strategy) == [strategy |-> strategy]

\* MemoryStrategyConfig(**strategy_data): the dictionary set wrote is never
\* empty, so the default strategy is not substituted.
LoadStrategy(w) == w.strategy

\* A write that loses the session data.
OrEmpty_Dropped(d) == {}

\* Python's `x or {}` on the session data
OrEmpty(d) == IF d = {} THEN {} ELSE d

\* The dictionary set_working_memory serializes (json.dumps and json.loads
\* carry it unchanged; datetimes of the document itself are written as whole
\* epoch seconds).
Serialize(wm, updated) ==
    [messages |-> [i \in 1..Len(wm.messages) |-> DumpMessage(wm.messages[i])],
     memories |-> [i \in 1..Len(wm.memories) |-> DumpMemory(wm.memories[i])],
     context |-> wm.context,
     user_id |-> wm.user_id,
     tokens |-> wm.tokens,
     session_id |-> wm.session_id,
     namespace |-> wm.namespace,
     ttl_seconds |-> wm.ttl_seconds,
     data |-> OrEmpty(wm.data),
     long_term_memory_strategy |-> DumpStrategy(wm.long_term_memory_strategy),
     last_accessed |-> EpochSeconds(wm.last_accessed),
     created_at |-> EpochSeconds(wm.created_at),
     updated_at |-> EpochSeconds(updated)]

\* A slice that keeps the stored order.
ApplyRecentLimit_Unsorted(messages, limit) ==
    IF IsSome(limit) /\ Value(limit) > 0
    THEN LastN(messages, Value(limit))
    ELSE messages

\* get_working_memory's in-memory slice: with a positive limit the messages
\* are sorted by created_at and the last `limit` kept; otherwise they are
\* left as stored.
ApplyRecentLimit(messages, limit) ==
    IF IsSome(limit) /\ Value(limit) > 0
    THEN LastN(SortAscending(messages), Value(limit))
    ELSE messages

\* The WorkingMemory get_working_memory builds from the stored dictionary.
Deserialize(w, session_id, namespace, limit) ==
    [messages |-> ApplyRecentLimit(
                      [i \in 1..Len(w.messages) |-> LoadMessage(w.messages[i])],
                      limit),
     memories |-> [i \in 1..Len(w.memories) |-> LoadMemory(w.memories[i])],
     context |-> w.context,
     user_id |-> w.user_id,
     tokens |-> w.tokens,
     session_id |-> session_id,
     namespace |-> namespace,
     ttl_seconds |-> w.ttl_seconds,
     data |-> OrEmpty(w.data),
     long_term_memory_strategy |-> LoadStrategy(w.long_term_memory_strategy),
     last_accessed |-> FromTimestamp(w.last_accessed),
     created_at |-> FromTimestamp(w.created_at),
     updated_at |-> FromTimestamp(w.updated_at)]

\* The validation of set_working_memory: every memory record has an id.
\* A set that validates nothing.
AllMemoriesHaveId_Unchecked(wm) == TRUE

AllMemoriesHaveId(wm) == \A i \in DOMAIN wm.memories : wm.memories[i].id /= ""

-----------------------------------------------------------------------------
(* The key-value store *)

\* Keys.working_memory_key: one key per (namespace, user, session) triple.
WorkingMemoryKey(session_id, user_id, namespace) ==
    <<namespace, user_id, session_id>>

\* Keys.sessions_key: one index per namespace.
SessionsKey(namespace) == namespace

\* GET key: the value, or nothing.
RedisGet(st, key) == IF IsSome(st[key]) THEN Some(Value(st[key]).val) ELSE Nothing

\* A SET that keeps the expiry of the key it replaces (KEEPTTL).
RedisSet_KeepTTL(st, key, val) ==
    [st EXCEPT ![key] =
        Some([val |-> val,
              exp |-> IF IsSome(st[key]) THEN Value(st[key]).exp ELSE Nothing])]

\* A SET that keeps the messages of the value it replaces.
RedisSet_Merge(st, key, val) ==
    LET merged == IF IsSome(st[key])
                  THEN [val EXCEPT !.messages = Value(st[key]).val.messages \o @]
                  ELSE val
    IN  [st EXCEPT ![key] = Some([val |-> merged, exp |-> Nothing])]

\* SET key value: the value replaces the old one and any expiry is dropped.
RedisSet(st, key, val) ==
    [st EXCEPT ![key] = Some([val |-> val, exp |-> Nothing])]

\* SETEX key ttl value: value and expiry are set in one step.
RedisSetex(st, key, ttl, val, t) ==
    [st EXCEPT ![key] = Some([val |-> val, exp |-> Some(t + ttl * TicksPerSecond)])]

\* A delete that empties the store.
RedisDelete_Flush(st, key) == [k \in DOMAIN st |-> Nothing]

\* DEL key
RedisDelete(st, key) == [st EXCEPT ![key] = Nothing]

\* The store once the clock shows t: keys whose expiry has come are gone.
Expire(st, t) ==
    [k \in DOMAIN st |->
        IF IsSome(st[k]) /\ IsSome(Value(st[k]).exp) /\ Value(Value(st[k]).exp) <= t
        THEN Nothing ELSE st[k]]

\* A write that never sets an expiry.
StoreWrite_NoExpiry(st, key, wm, val, t) == RedisSet(st, key, val)

\* The write of set_working_memory: SETEX when the document has a TTL, a plain
\* SET otherwise.
StoreWrite(st, key, wm, val, t) ==
    IF IsSome(wm.ttl_seconds)
    THEN RedisSetex(st, key, Value(wm.ttl_seconds), val, t)
    ELSE RedisSet(st, key, val)

-----------------------------------------------------------------------------
(* Reconstruction from long-term memory *)

\* The cap of the long-term search when no limit is given.
DefaultSearchLimit == 1000

\* str.lower() on the characters the model uses
LowerChar(c) == CASE c = "U" -> "u"
                  [] c = "A" -> "a"
                  [] OTHER -> c

Lower(text) == [i \in 1..Len(text) |-> LowerChar(text[i])]

\* The positions where ": " starts in text.
SeparatorAt(text) ==
    {i \in 1..(Len(text) - 1) : text[i] = ":" /\ text[i + 1] = " "}

\* ": " in text
HasSeparator(text) == SeparatorAt(text) /= {}

\* A split on the last separator.
FirstSeparator_Last(text) ==
    CHOOSE i \in SeparatorAt(text) : \A j \in SeparatorAt(text) : i >= j

FirstSeparator(text) ==
    CHOOSE i \in SeparatorAt(text) : \A j \in SeparatorAt(text) : i <= j

\* text.split(": ", 1): what precedes the first separator, and what follows it.
SplitRole(text) == SubSeq(text, 1, FirstSeparator(text) - 1)

SplitContent(text) == SubSeq(text, FirstSeparator(text) + 2, Len(text))

\* The MemoryMessage built from one long-term record with a separator.
ParseMessage(memory) ==
    [id |-> memory.id,
     role |-> Lower(SplitRole(memory.text)),
     content |-> SplitContent(memory.text),
     created_at |-> memory.created_at,
     persisted_at |-> memory.persisted_at]

\* The parse loop: one message per record with a separator, in the order of
\* the search result; the other records are skipped.
RECURSIVE ParseMessages(_)
ParseMessages(memories) ==
    IF memories = <<>> THEN <<>>
    ELSE LET rest == ParseMessages(SubSeq(memories, 1, Len(memories) - 1))
             memory == memories[Len(memories)]
         IN  IF HasSeparator(memory.text)
             THEN Append(rest, ParseMessage(memory))
             ELSE rest

\* Python's truth of an optional limit: None and 0 are false.
Truthy(limit) == IsSome(limit) /\ Value(limit) /= 0

\* search_limit = recent_messages_limit if recent_messages_limit else 1000
SearchLimit(limit) == IF Truthy(limit) THEN Value(limit) ELSE DefaultSearchLimit

\* Sort newest first, keep the first `limit` when a limit is given, reverse.
OrderAndTruncate(messages, limit) ==
    LET sorted == SortDescending(messages)
        kept == IF Truthy(limit) /\ Len(sorted) > Value(limit)
                THEN FirstN(sorted, Value(limit))
                ELSE sorted
    IN  Reverse(kept)

\* A creation time that is always the time of the reconstruction.
PersistedOrNow_Now(message, t) == t

\* messages[0].persisted_at or now
PersistedOrNow(message, t) ==
    IF IsSome(message.persisted_at) THEN Value(message.persisted_at) ELSE t

\* The records of long-term memory a search with these filters may return:
\* message records of the session, of the user when one is given and of the
\* namespace when one is given.
Matching(records, session_id, user_id, namespace) ==
    {r \in records :
        /\ r.memory_type = "message"
        /\ r.session_id = session_id
        /\ (user_id \in {None, ""} \/ r.user_id = user_id)
        /\ (namespace \in {None, ""} \/ r.namespace = namespace)}

\* search_long_term_memories(text="", filters, limit, offset=0): the results
\* it may return. The search promises no order and no choice among the
\* matching records: any `limit` of them, in any order.
SearchResults(records, session_id, user_id, namespace, cap) ==
    LET matching == Matching(records, session_id, user_id, namespace)
        n == Min(cap, Cardinality(matching))
    IN  {q \in SeqsUpTo(matching, n) : Len(q) = n /\ NoRepeat(q)}

\* _reconstruct_working_memory_from_long_term, given the search's result.
Reconstruct(results, session_id, user_id, namespace, limit, t) ==
    IF results = <<>> THEN Nothing
    ELSE LET parsed == ParseMessages(results)
         IN  IF parsed = <<>> THEN Nothing
             ELSE LET messages == OrderAndTruncate(parsed, limit)
                  IN  Some([session_id |-> session_id,
                            namespace |-> namespace,
                            user_id |-> user_id,
                            messages |-> messages,
                            memories |-> <<>>,
                            context |-> "",
                            data |-> {},
                            tokens |-> 0,
                            ttl_seconds |-> Nothing,
                            long_term_memory_strategy |-> "discrete",
                            created_at |-> PersistedOrNow(messages[1], t),
                            updated_at |-> t,
                            last_accessed |-> t])

-----------------------------------------------------------------------------
(* The session index and list_sessions *)

\* ZCARD key
ZCard(members) == Len(members)

\* ZRANGE key start stop: both ends inclusive and 0-based, a negative index
\* counting from the end of the ordered set.
ZRange(members, start, stop) ==
    LET n == Len(members)
        lo == Max(0, IF start < 0 THEN n + start ELSE start)
        hi == Min(n - 1, IF stop < 0 THEN n + stop ELSE stop)
    IN  IF lo > hi \/ lo >= n THEN <<>> ELSE SubSeq(members, lo + 1, hi + 1)

\* start = offset
RangeStart(offset, limit) == offset

\* An exclusive end taken for an inclusive one.
RangeEnd_Exclusive(offset, limit) == offset + limit

\* end = offset + limit - 1
RangeEnd(offset, limit) == offset + limit - 1

\* A pipeline that only batches the commands.
PipelineTransaction_Off == FALSE

\* redis.pipeline() is redis-py's transactional pipeline (MULTI ... EXEC): the
\* server runs the queued commands with no other client's command between.
PipelineTransaction == TRUE

Idle == [pc |-> "idle"]

-----------------------------------------------------------------------------
(* Inputs of the model *)

SessionIds == {"s1", "s2"}

UserIds == {None, "u1"}

Namespaces == {None, "n1"}

KeySpace == {WorkingMemoryKey(s, u, n) : s \in SessionIds, u \in UserIds, n \in Namespaces}

MessagePool ==
    {[id |-> "a", role |-> "user", content |-> "hi",
      created_at |-> 1, persisted_at |-> Nothing],
     [id |-> "b", role |-> "assistant", content |-> "hello",
      created_at |-> 0, persisted_at |-> Some(1)]}

MessageA == CHOOSE m \in MessagePool : m.id = "a"

MessageB == CHOOSE m \in MessagePool : m.id = "b"

\* In the order written and out of it.
MessageLists == {<<>>, <<MessageB, MessageA>>, <<MessageA, MessageB>>}

GoodMemory == [id |-> "m1", text |-> "likes tea"]

BadMemory == [id |-> "", text |-> "no id"]

TTLs == {Nothing, Some(1)}

Limits == {Nothing, Some(0), Some(1), Some(2)}

\* The documents callers pass to set_working_memory: session s1 with every
\* combination of messages, TTL and creation time, and with memory records
\* with and without an id; session s2 with a payload of its own.
Documents ==
    {[session_id |-> "s1", user_id |-> None, namespace |-> None,
      messages |-> ms, memories |-> <<GoodMemory>>, context |-> "", data |-> {},
      tokens |-> 0, ttl_seconds |-> ttl, long_term_memory_strategy |-> "discrete",
      created_at |-> c, updated_at |-> c, last_accessed |-> c] :
        ms \in MessageLists, ttl \in TTLs, c \in {0, 1}}
    \cup
    {[session_id |-> "s1", user_id |-> None, namespace |-> None,
      messages |-> <<>>, memories |-> mems, context |-> "", data |-> {},
      tokens |-> 0, ttl_seconds |-> ttl, long_term_memory_strategy |-> "discrete",
      created_at |-> 0, updated_at |-> 0, last_accessed |-> 0] :
        mems \in {<<BadMemory>>, <<GoodMemory, BadMemory>>}, ttl \in TTLs}
    \cup
    {[session_id |-> "s2", user_id |-> None, namespace |-> None,
      messages |-> <<>>, memories |-> <<>>, context |-> "ctx",
      data |-> {<<"k", "v">>}, tokens |-> 5, ttl_seconds |-> Nothing,
      long_term_memory_strategy |-> "summary",
      created_at |-> 0, updated_at |-> 0, last_accessed |-> 0]}

\* Long-term memory records: text is a sequence of characters.
LongTermRecord(id, session_id, user_id, namespace, memory_type, text, created, persisted) ==
    [id |-> id, session_id |-> session_id, user_id |-> user_id,
     namespace |-> namespace, memory_type |-> memory_type, text |-> text,
     created_at |-> created, persisted_at |-> persisted]

LongTermPool ==
    {LongTermRecord("r1", "s1", None, None, "message", <<"U", ":", " ", "h">>, 2, Some(3)),
     LongTermRecord("r2", "s1", None, None, "message",
                    <<"a", ":", " ", "x", ":", " ", "y">>, 1, Nothing),
     LongTermRecord("r3", "s1", "u1", None, "message", <<"j", "k">>, 3, Some(3)),
     LongTermRecord("r4", "s1", "u1", "n1", "message", <<"A", ":", " ", "k">>, 1, Some(2)),
     LongTermRecord("r5", "s1", None, None, "semantic", <<"n", ":", " ", "z">>, 0, Some(0)),
     LongTermRecord("r6", "s2", None, None, "message", <<"U", ":", "h">>, 0, Some(1))}

\* The long-term memory the store-centred specification runs against: two
\* well-formed messages of s1 and one malformed one.
InitialLongTerm ==
    {LongTermRecord("r1", "s1", None, None, "message", <<"U", ":", " ", "h">>, 2, Some(3)),
     LongTermRecord("r2", "s1", None, None, "message",
                    <<"a", ":", " ", "x", ":", " ", "y">>, 1, Nothing),
     LongTermRecord("r3", "s1", None, None, "message", <<"j", "k">>, 3, Some(3))}

-----------------------------------------------------------------------------
(* set_working_memory *)

\* fault: "none", "conn" (get_redis_conn raises; only without a client),
\* "refused" (the store raises and has not written), "lost" (the store has
\* written and the reply is lost, so the client raises).
\* A call that logs the store's error and returns.
SetError_Swallowed(wm, fault) ==
    IF fault = "conn" THEN "ConnectionError"
    ELSE IF ~AllMemoriesHaveId(wm) THEN "ValueError"
    ELSE "none"

\* What the call raises: the first of the connection error, the validation
\* error and the store's error, the last one logged and raised again.
SetError(wm, fault) ==
    IF fault = "conn" THEN "ConnectionError"
    ELSE IF ~AllMemoriesHaveId(wm) THEN "ValueError"
    ELSE IF fault \in {"refused", "lost"} THEN "StoreError"
    ELSE "none"

\* The expiry the key has before a call: nothing when the key is absent or
\* has no expiry.
ExpiryOf(st, key) == IF IsSome(st[key]) THEN Value(st[key]).exp ELSE Nothing

\* A set that also adds the session to the index of its namespace.
SetWorkingMemory_Indexing(wm, client, fault) ==
    /\ wm.created_at <= now /\ wm.updated_at <= now /\ wm.last_accessed <= now
    /\ fault = "conn" => ~client
    /\ LET key == WorkingMemoryKey(wm.session_id, wm.user_id, wm.namespace)
           error == SetError(wm, fault)
       IN  /\ store' = IF error = "none"
                       THEN StoreWrite(store, key, wm, Serialize(wm, now), now)
                       ELSE store
           /\ index' = IF error = "none" /\ wm.session_id \notin Range(index[SessionsKey(wm.namespace)])
                       THEN [index EXCEPT ![SessionsKey(wm.namespace)] =
                                Append(@, wm.session_id)]
                       ELSE index
           /\ last' = [op |-> "set", doc |-> wm, key |-> key,
                       at |-> now, fault |-> fault, error |-> error,
                       had |-> ExpiryOf(store, key)]
    /\ UNCHANGED <<now, ltm, reconstructEnabled, pipe, inflight>>

SetWorkingMemory(wm, client, fault) ==
    /\ wm.created_at <= now /\ wm.updated_at <= now /\ wm.last_accessed <= now
    /\ fault = "conn" => ~client
    /\ LET key == WorkingMemoryKey(wm.session_id, wm.user_id, wm.namespace)
           val == Serialize(wm, now)
           error == SetError(wm, fault)
           written == error = "none" \/ (error = "StoreError" /\ fault = "lost")
       IN  /\ store' = IF written THEN StoreWrite(store, key, wm, val, now) ELSE store
           /\ last' = [op |-> "set", doc |-> wm, key |-> key,
                       at |-> now, fault |-> fault, error |-> error,
                       had |-> ExpiryOf(store, key)]
    /\ UNCHANGED <<now, index, ltm, reconstructEnabled, pipe, inflight>>

\* set_working_memory as concurrent callers run it, in two steps. First, up
\* to the await of the store command: client, validation, key, updated_at
\* and the serialized document; the call is then in flight.
SetBegin(wm, call) ==
    /\ Cardinality(inflight) < MaxInflight
    /\ call \notin {c.call : c \in inflight}
    /\ \A free \in (1..MaxInflight) \ {c.call : c \in inflight} : call <= free
    /\ wm.created_at <= now /\ wm.updated_at <= now /\ wm.last_accessed <= now
    /\ SetError(wm, "none") = "none"
    /\ inflight' = inflight \cup
           {[call |-> call, wm |-> wm,
             key |-> WorkingMemoryKey(wm.session_id, wm.user_id, wm.namespace),
             val |-> Serialize(wm, now), begun |-> now]}
    /\ UNCHANGED <<now, store, index, ltm, reconstructEnabled, pipe, last>>

\* Second, the store command of a call in flight reaches the store (or fails)
\* and the call returns or raises.
SetWrite(c, fault) ==
    /\ c \in inflight
    /\ store' = IF fault \in {"none", "lost"}
                THEN StoreWrite(store, c.key, c.wm, c.val, now)
                ELSE store
    /\ inflight' = inflight \ {c}
    /\ last' = [op |-> "set", doc |-> c.wm, key |-> c.key,
                at |-> c.begun, fault |-> fault, error |-> SetError(c.wm, fault),
                had |-> ExpiryOf(store, c.key),
                replaced |-> RedisGet(store, c.key)]
    /\ UNCHANGED <<now, index, ltm, reconstructEnabled, pipe>>

-----------------------------------------------------------------------------
(* get_working_memory *)

\* The successful set this read follows with no other write call between:
\* the document passed to it and the time of the call.
SetBefore(key) ==
    IF last.op = "set" /\ last.error = "none" /\ last.key = key
    THEN Some([doc |-> last.doc, at |-> last.at])
    ELSE IF last.op = "get" /\ last.key = key THEN last.since
    ELSE Nothing

\* The get this read repeats: the call just before it, made with the same
\* arguments and given the same answer by the search (if it was called), when
\* both ran without a fault and the earlier one returned a document. That
\* document and where it came from.
GetBefore(key, limit, fault, results) ==
    IF /\ last.op = "get" /\ last.key = key /\ last.limit = limit
       /\ last.fault = "none" /\ fault = "none" /\ IsSome(last.doc)
       /\ last.results = results
    THEN Some([doc |-> Value(last.doc), source |-> last.source])
    ELSE Nothing

\* A read that goes to long-term memory on every miss, whatever the setting.
ShouldReconstruct_Ungated(data, fault) ==
    fault \notin {"conn", "read"} /\ ~IsSome(data)

\* Whether the read goes to long-term memory: the store answered, the key is
\* not there and the feature is enabled.
ShouldReconstruct(data, fault) ==
    fault \notin {"conn", "read"} /\ ~IsSome(data) /\ reconstructEnabled

\* A reconstruction whose parse loop raises at the last record and which
\* returns what it has built from the records before it.
ReconstructOrFail_Partial(results, session_id, user_id, namespace, limit, fault, t) ==
    IF fault = "search" THEN Nothing
    ELSE IF fault = "parse" /\ results /= <<>>
         THEN Reconstruct(SubSeq(results, 1, Len(results) - 1),
                          session_id, user_id, namespace, limit, t)
         ELSE Reconstruct(results, session_id, user_id, namespace, limit, t)

\* _reconstruct_working_memory_from_long_term with its try/except: an error
\* of the search or of the conversion of a record gives None, whatever has
\* been built so far.
ReconstructOrFail(results, session_id, user_id, namespace, limit, fault, t) ==
    IF fault = "search" THEN Nothing
    ELSE IF fault = "parse" /\ results /= <<>> THEN Nothing
         ELSE Reconstruct(results, session_id, user_id, namespace, limit, t)

\* The outcome of get_working_memory, as the record of the call.
\* fault: "none", "conn" (get_redis_conn raises; only without a client),
\* "read" (the store's GET raises), "search" (the long-term search raises),
\* "parse" (the conversion of a returned record raises).
\* results: what the long-term search returns if it is called.
GetResult(session_id, user_id, namespace, limit, fault, results) ==
    LET key == WorkingMemoryKey(session_id, user_id, namespace)
        data == IF fault = "read" THEN Nothing ELSE RedisGet(store, key)
        searched == ShouldReconstruct(data, fault)
        reconstructed ==
            IF searched
            THEN ReconstructOrFail(results, session_id, user_id, namespace,
                                   limit, fault, now)
            ELSE Nothing
        doc == IF fault \in {"conn", "read"} THEN Nothing
               ELSE IF IsSome(data)
                    THEN Some(Deserialize(Value(data), session_id, namespace, limit))
                    ELSE reconstructed
    IN  [op |-> "get", key |-> key, session_id |-> session_id,
         user_id |-> user_id, namespace |-> namespace,
         limit |-> limit, fault |-> fault, at |-> now,
         outcome |-> IF fault = "conn" THEN "raised"
                     ELSE IF IsSome(doc) THEN "document" ELSE "absent",
         source |-> IF ~IsSome(doc) THEN "none"
                    ELSE IF IsSome(data) THEN "store" ELSE "long_term",
         doc |-> doc,
         searched |-> searched,
         results |-> IF searched /\ fault /= "search" THEN results ELSE <<>>,
         candidates |-> IF searched
                        THEN Matching(ltm, session_id, user_id, namespace)
                        ELSE {},
         stored |-> IF IsSome(data) /\ fault /= "conn"
                    THEN [i \in 1..Len(Value(data).messages) |->
                             LoadMessage(Value(data).messages[i])]
                    ELSE <<>>,
         since |-> SetBefore(key),
         prev |-> GetBefore(key, limit, fault,
                            IF searched THEN results ELSE <<>>)]

\* A read that writes the reconstructed document back to the store.
GetWorkingMemory_WriteBack(session_id, user_id, namespace, client, limit, fault, results) ==
    /\ fault = "conn" => ~client
    /\ last' = GetResult(session_id, user_id, namespace, limit, fault, results)
    /\ store' = IF last'.source = "long_term"
                THEN RedisSet(store, last'.key, Serialize(Value(last'.doc), now))
                ELSE store
    /\ UNCHANGED <<now, index, ltm, reconstructEnabled, pipe, inflight>>

GetWorkingMemory(session_id, user_id, namespace, client, limit, fault, results) ==
    /\ fault = "conn" => ~client
    /\ last' = GetResult(session_id, user_id, namespace, limit, fault, results)
    /\ UNCHANGED <<now, store, index, ltm, reconstructEnabled, pipe, inflight>>

-----------------------------------------------------------------------------
(* delete_working_memory *)

\* What the call raises: the connection error, or the store's error, logged
\* and raised again. DEL of a key that does not exist is no error.
DeleteError(fault) ==
    IF fault = "conn" THEN "ConnectionError"
    ELSE IF fault \in {"refused", "lost"} THEN "StoreError"
    ELSE "none"

DeleteWorkingMemory(session_id, user_id, namespace, client, fault) ==
    /\ fault = "conn" => ~client
    /\ LET key == WorkingMemoryKey(session_id, user_id, namespace)
           error == DeleteError(fault)
           deleted == fault \in {"none", "lost"}
       IN  /\ store' = IF deleted THEN RedisDelete(store, key) ELSE store
           /\ last' = [op |-> "delete", key |-> key,
                       at |-> now, fault |-> fault, error |-> error,
                       existed |-> IsSome(RedisGet(store, key))]
    /\ UNCHANGED <<now, index, ltm, reconstructEnabled, pipe, inflight>>

-----------------------------------------------------------------------------
(* The environment: time, the store's expiry, other components *)

\* Time passes; the store drops the keys whose expiry has come.
Tick ==
    /\ now < MaxClock
    /\ now' = now + 1
    /\ store' = Expire(store, now + 1)
    /\ UNCHANGED <<index, ltm, reconstructEnabled, pipe, inflight, last>>

\* Another component indexes a message in long-term memory.
IndexLongTerm(r) ==
    /\ r \notin ltm
    /\ Cardinality(ltm) < MaxLtm
    /\ ltm' = ltm \cup {r}
    /\ last' = [op |-> "index"]
    /\ UNCHANGED <<now, store, index, reconstructEnabled, pipe, inflight>>

-----------------------------------------------------------------------------
(* list_sessions *)

\* pipe.zcard(sessions_key); pipe.zrange(sessions_key, start, end): both
\* commands are queued in the pipeline, nothing is sent yet.
ListSessionsQueue(limit, offset, namespace, user_id) ==
    /\ pipe = Idle
    /\ last' = [op |-> "none"]
    /\ pipe' = [pc |-> "queued", limit |-> limit, offset |-> offset,
                namespace |-> namespace, user_id |-> user_id,
                key |-> SessionsKey(namespace),
                queued |-> index[SessionsKey(namespace)],
                start |-> RangeStart(offset, limit),
                end |-> RangeEnd(offset, limit)]
    /\ UNCHANGED <<now, store, index, ltm, reconstructEnabled, inflight>>

\* pipe.execute(), first command: the server runs ZCARD.
ExecuteZCard ==
    /\ pipe.pc = "queued"
    /\ pipe' = [pipe EXCEPT !.pc = "in_exec"] @@
               [total |-> ZCard(index[pipe.key]), counted |-> index[pipe.key]]
    /\ UNCHANGED <<now, store, index, ltm, reconstructEnabled, inflight, last>>

\* pipe.execute(), second command: the server runs ZRANGE, and list_sessions
\* returns (total, session_ids).
ExecuteZRange ==
    /\ pipe.pc = "in_exec"
    /\ last' = [op |-> "list", limit |-> pipe.limit, offset |-> pipe.offset,
                namespace |-> pipe.namespace, user_id |-> pipe.user_id,
                total |-> pipe.total,
                ids |-> ZRange(index[pipe.key], pipe.start, pipe.end),
                queued |-> pipe.queued,
                counted |-> pipe.counted, ranged |-> index[pipe.key]]
    /\ pipe' = Idle
    /\ UNCHANGED <<now, store, index, ltm, reconstructEnabled, inflight>>

\* Whether another client's command may run now: not inside a transaction.
OthersMayRun == ~(PipelineTransaction /\ pipe.pc = "in_exec")

IndexIds == {"s1", "s2", "s3"}

InsertAt(members, pos, x) ==
    SubSeq(members, 1, pos) \o <<x>> \o SubSeq(members, pos + 1, Len(members))

RemoveAt(members, pos) ==
    SubSeq(members, 1, pos - 1) \o SubSeq(members, pos + 1, Len(members))

\* Another component adds a session to a namespace's index (ZADD); its score
\* decides the position.
IndexAdd(namespace, session_id, pos) ==
    /\ OthersMayRun
    /\ session_id \notin Range(index[namespace])
    /\ Len(index[namespace]) < MaxIndex
    /\ pos \in 0..Len(index[namespace])
    /\ index' = [index EXCEPT ![namespace] = InsertAt(@, pos, session_id)]
    /\ last' = [op |-> "index"]
    /\ UNCHANGED <<now, store, ltm, reconstructEnabled, pipe, inflight>>

\* Another component removes a session from a namespace's index (ZREM).
IndexRemove(namespace, pos) ==
    /\ OthersMayRun
    /\ pos \in 1..Len(index[namespace])
    /\ index' = [index EXCEPT ![namespace] = RemoveAt(@, pos)]
    /\ last' = [op |-> "index"]
    /\ UNCHANGED <<now, store, ltm, reconstructEnabled, pipe, inflight>>

-----------------------------------------------------------------------------
(* Specifications *)

WriteFaults == {"none", "conn", "refused", "lost"}

ReadFaults == {"none", "conn", "read", "search", "parse"}

\* Whether redis_client is passed: a call without one gets its client from
\* get_redis_conn(), which returns the shared client (the call then runs as if
\* the client had been passed) or raises (the fault "conn").
Clients(fault) == {fault /= "conn"}

SetCall ==
    \E wm \in Documents, fault \in WriteFaults :
        \E client \in Clients(fault) : SetWorkingMemory(wm, client, fault)

\* Whether this call of get_working_memory reaches the long-term search.
WouldSearch(session_id, user_id, namespace, fault) ==
    /\ fault \notin {"conn", "read"}
    /\ ~IsSome(RedisGet(store, WorkingMemoryKey(session_id, user_id, namespace)))
    /\ reconstructEnabled

GetCall(sessions, users, namespaces, faults) ==
    \E session_id \in sessions, user_id \in users, namespace \in namespaces,
       limit \in Limits, fault \in faults :
        \E client \in Clients(fault),
           results \in IF WouldSearch(session_id, user_id, namespace, fault)
                          /\ fault /= "search"
                       THEN SearchResults(ltm, session_id, user_id, namespace,
                                          SearchLimit(limit))
                       ELSE {<<>>} :
            GetWorkingMemory(session_id, user_id, namespace, client, limit,
                             fault, results)

DeleteCall ==
    \E session_id \in SessionIds, fault \in WriteFaults :
        \E client \in Clients(fault) :
            DeleteWorkingMemory(session_id, None, None, client, fault)

InitCommon ==
    /\ now = 0
    /\ store = [k \in KeySpace |-> Nothing]
    /\ index = [n \in Namespaces |-> <<>>]
    /\ pipe = Idle
    /\ inflight = {}
    /\ last = [op |-> "none"]

\* The store-centred specification: set, get and delete on the working
\* memory of two sessions, against a fixed long-term memory.
Init ==
    /\ InitCommon
    /\ ltm = InitialLongTerm
    /\ reconstructEnabled \in BOOLEAN

Next ==
    \/ SetCall
    \/ GetCall(SessionIds, {None}, {None}, ReadFaults)
    \/ DeleteCall
    \/ Tick

Spec == Init /\ [][Next]_vars

\* Reconstruction: the store stays empty, long-term memory grows.
InitRecon ==
    /\ InitCommon
    /\ ltm = {}
    /\ reconstructEnabled = TRUE

NextRecon ==
    \/ \E r \in LongTermPool : IndexLongTerm(r)
    \/ GetCall(SessionIds, UserIds, Namespaces, {"none", "search"})
    \/ Tick

SpecRecon == InitRecon /\ [][NextRecon]_vars

\* Listing: list_sessions against a session index other components modify.
InitList ==
    /\ InitCommon
    /\ ltm = {}
    /\ reconstructEnabled = FALSE

ListLimits == 0..2

ListOffsets == 0..MaxIndex

NextList ==
    \/ \E limit \in ListLimits, offset \in ListOffsets, namespace \in Namespaces,
          user_id \in UserIds :
           ListSessionsQueue(limit, offset, namespace, user_id)
    \/ ExecuteZCard
    \/ ExecuteZRange
    \/ \E namespace \in Namespaces, session_id \in IndexIds, pos \in 0..MaxIndex :
           IndexAdd(namespace, session_id, pos)
    \/ \E namespace \in Namespaces, pos \in 1..MaxIndex : IndexRemove(namespace, pos)

SpecList == InitList /\ [][NextList]_vars

\* set_working_memory called with one of `documents` under one of `faults`.
SetCallOf(documents, faults) ==
    \E wm \in documents, fault \in faults :
        \E client \in Clients(fault) : SetWorkingMemory(wm, client, fault)

\* The documents without messages, created at time 0.
ModuleDocuments == {d \in Documents : d.messages = <<>> /\ d.created_at = 0}

\* The whole module: every operation, on two sessions of one namespace, with
\* another component that maintains the session index. The clock stands.
InitModule ==
    /\ InitCommon
    /\ ltm = InitialLongTerm
    /\ reconstructEnabled = TRUE

NextModule ==
    \/ SetCallOf(ModuleDocuments, WriteFaults)
    \/ GetCall(SessionIds, {None}, {None}, {"none", "read"})
    \/ DeleteCall
    \/ \E limit \in {1, 2} : ListSessionsQueue(limit, 0, None, None)
    \/ ExecuteZCard
    \/ ExecuteZRange
    \/ \E session_id \in SessionIds, pos \in 0..1 : IndexAdd(None, session_id, pos)
    \/ \E pos \in 1..2 : IndexRemove(None, pos)

SpecModule == InitModule /\ [][NextModule]_vars

\* Three documents of session s1 that differ in messages and TTL.
ConcurrentDocuments ==
    {d \in Documents :
        /\ d.session_id = "s1" /\ AllMemoriesHaveId(d) /\ d.created_at = 0
        /\ \/ d.messages = <<>> /\ d.ttl_seconds = Nothing
           \/ d.messages = <<MessageB, MessageA>> /\ d.ttl_seconds = Nothing
           \/ d.messages = <<MessageA, MessageB>> /\ d.ttl_seconds = Some(1)}

\* Concurrent callers on one key: sets in flight whose store commands arrive
\* in any order, between reads and deletes of the key.
InitConcurrent ==
    /\ InitCommon
    /\ ltm = {}
    /\ reconstructEnabled = FALSE

NextConcurrent ==
    \/ \E wm \in ConcurrentDocuments, call \in 1..MaxInflight : SetBegin(wm, call)
    \/ \E c \in inflight, fault \in {"none", "refused"} : SetWrite(c, fault)
    \/ GetCall({"s1"}, {None}, {None}, {"none"})
    \/ \E fault \in {"none", "refused"} :
           DeleteWorkingMemory("s1", None, None, TRUE, fault)
    \/ Tick

SpecConcurrent == InitConcurrent /\ [][NextConcurrent]_vars

-----------------------------------------------------------------------------
(* Claims *)

\* A read that follows a successful set of the same key with no other write
\* call between, and the document that set was given.
ReadAfterSet == last.op = "get" /\ last.fault = "none" /\ IsSome(last.since)

DocumentSet == Value(last.since).doc

SetAt == Value(last.since).at

Returned == Value(last.doc)

\* A datetime cut to whole seconds, as the stored form carries it.
WholeSeconds(t) == (t \div TicksPerSecond) * TicksPerSecond

SameContent(a, b) ==
    /\ a.session_id = b.session_id
    /\ a.user_id = b.user_id
    /\ a.namespace = b.namespace
    /\ a.messages = b.messages
    /\ a.memories = b.memories
    /\ a.context = b.context
    /\ a.data = b.data
    /\ a.tokens = b.tokens
    /\ a.ttl_seconds = b.ttl_seconds
    /\ a.long_term_memory_strategy = b.long_term_memory_strategy

\* C1 as stated: set(D) with ttl_seconds = null followed by get of the same
\* session returns D in every field, created_at and last_accessed included,
\* except updated_at, which has advanced.
C1_RoundTripExact ==
    (ReadAfterSet /\ ~IsSome(DocumentSet.ttl_seconds) /\ ~IsSome(last.limit))
    => /\ last.outcome = "document"
       /\ SameContent(Returned, DocumentSet)
       /\ Returned.created_at = DocumentSet.created_at
       /\ Returned.last_accessed = DocumentSet.last_accessed
       /\ Returned.updated_at >= DocumentSet.updated_at

\* C1 amended: set(D) with ttl_seconds = null followed by get of the same
\* session returns D in every field but the three datetimes; created_at and
\* last_accessed come back cut to whole seconds, and updated_at is the time of
\* the set call cut to whole seconds.
C1_RoundTripWholeSeconds ==
    (ReadAfterSet /\ ~IsSome(DocumentSet.ttl_seconds) /\ ~IsSome(last.limit))
    => /\ last.outcome = "document"
       /\ last.source = "store"
       /\ SameContent(Returned, DocumentSet)
       /\ Returned.created_at = WholeSeconds(DocumentSet.created_at)
       /\ Returned.last_accessed = WholeSeconds(DocumentSet.last_accessed)
       /\ Returned.updated_at = WholeSeconds(SetAt)

\* A document with two messages and a creation time within a second was set
\* without TTL and read back.
C1_Witness ==
    /\ ReadAfterSet /\ ~IsSome(DocumentSet.ttl_seconds) /\ ~IsSome(last.limit)
    /\ last.outcome = "document"
    /\ Len(Returned.messages) = 2
    /\ DocumentSet.created_at /= WholeSeconds(DocumentSet.created_at)

\* C2 as stated: set_working_memory of a document with a memory record
\* without id fails with the validation error, and the store is after the
\* call what it was before it.
C2_InvalidDocumentRejected ==
    [][(last'.op = "set" /\ now' = now /\ ~AllMemoriesHaveId(last'.doc))
       => (last'.error = "ValueError" /\ store' = store)]_vars

\* C3 as stated: get_working_memory ends with a document or with absent,
\* never with an exception raised to its caller.
C3_GetNeverRaises ==
    last.op = "get" => last.outcome \in {"document", "absent"}

\* The documents reconstruction can return for this read: one per result the
\* long-term search may give.
Reconstructions ==
    {Reconstruct(q, last.session_id, last.user_id, last.namespace, last.limit, last.at) :
        q \in SearchResults(last.candidates, last.session_id, last.user_id,
                            last.namespace, SearchLimit(last.limit))}

Expired(at, ttl, t) == t > at + ttl * TicksPerSecond

\* C4: once more than T seconds have passed since a successful set with
\* ttl_seconds = T, with no later set of the key, the key is absent from the
\* store, and a read returns absent when reconstruction is disabled and what
\* reconstruction returns when it is enabled, never the stored document.
C4_TTLLaw ==
    /\ (last.op = "set" /\ last.error = "none" /\ IsSome(last.doc.ttl_seconds)
        /\ Expired(last.at, Value(last.doc.ttl_seconds), now))
       => ~IsSome(store[last.key])
    /\ (last.op = "get" /\ IsSome(last.since)
        /\ IsSome(DocumentSet.ttl_seconds)
        /\ Expired(SetAt, Value(DocumentSet.ttl_seconds), last.at))
       => /\ last.source /= "store"
          /\ last.stored = <<>>
          /\ last.fault = "none" =>
                IF reconstructEnabled
                THEN last.searched /\ last.doc \in Reconstructions
                ELSE last.outcome = "absent"
          /\ last.fault \in {"read", "search"} => last.outcome = "absent"

\* A document set with a TTL has expired, and the read returned a document
\* reconstructed from long-term memory.
C4_Witness ==
    /\ last.op = "get" /\ IsSome(last.since) /\ last.fault = "none"
    /\ IsSome(DocumentSet.ttl_seconds)
    /\ Expired(SetAt, Value(DocumentSet.ttl_seconds), last.at)
    /\ last.source = "long_term"
    /\ DocumentSet.messages /= <<>>

\* The candidate messages of a read: the stored ones on a hit, the
\* well-formed message records of the session in long-term memory on a miss.
CandidateMessages ==
    IF last.source = "store" THEN Range(last.stored)
    ELSE {ParseMessage(r) : r \in {c \in last.candidates : HasSeparator(c.text)}}

\* s holds the n latest elements of the set `all`, oldest first.
LatestOf(s, all, n) ==
    /\ Len(s) = Min(n, Cardinality(all))
    /\ Range(s) \subseteq all
    /\ NoRepeat(s)
    /\ Chronological(s)
    /\ \A m \in Range(s), c \in all \ Range(s) : c.created_at <= m.created_at

\* C5 as stated: a read with recent_messages_limit = N > 0 returns at most N
\* messages, the N latest of the candidates, oldest first, from the store and
\* from long-term memory alike.
C5_LatestN ==
    (last.op = "get" /\ last.outcome = "document"
     /\ IsSome(last.limit) /\ Value(last.limit) > 0)
    => /\ Len(Returned.messages) <= Value(last.limit)
       /\ LatestOf(Returned.messages, CandidateMessages, Value(last.limit))

\* C6 as stated: every document get_working_memory returns has its messages
\* oldest first, with and without a limit.
C6_AlwaysChronological ==
    (last.op = "get" /\ last.outcome = "document")
    => Chronological(Returned.messages)

\* C6 amended: the messages are oldest first when the document is
\* reconstructed from long-term memory or a positive limit is given; a
\* document read from the store without a positive limit has its messages in
\* the order in which they were set.
C6_ChronologicalWhenSortedOrRebuilt ==
    (last.op = "get" /\ last.outcome = "document")
    => /\ (last.source = "long_term" \/ (IsSome(last.limit) /\ Value(last.limit) > 0))
          => Chronological(Returned.messages)
       /\ (last.source = "store" /\ ~(IsSome(last.limit) /\ Value(last.limit) > 0))
          => /\ Returned.messages = last.stored
             /\ IsSome(last.since) => Returned.messages = DocumentSet.messages

\* Messages set newest first were read from the store with a limit of 2 and
\* came back oldest first.
C6_Witness ==
    /\ last.op = "get" /\ last.source = "store"
    /\ last.limit = Some(2)
    /\ ~Chronological(last.stored)
    /\ Len(Returned.messages) = 2

\* text is role, the separator, content, and role holds no separator: the
\* split is at the first ": ".
SplitsInto(text, role, content) ==
    /\ text = role \o <<":", " ">> \o content
    /\ \A i \in 1..(Len(role) - 1) : ~(role[i] = ":" /\ role[i + 1] = " ")

\* message is the message of record r.
MessageOf(message, r) ==
    /\ message.id = r.id
    /\ message.created_at = r.created_at
    /\ message.persisted_at = r.persisted_at
    /\ \E k \in 0..Len(r.text) :
          /\ Len(message.role) = k
          /\ \A i \in 1..k : message.role[i] = LowerChar(r.text[i])
          /\ SplitsInto(r.text, SubSeq(r.text, 1, k), message.content)

WellFormed(records) ==
    {r \in records : \E i \in 1..(Len(r.text) - 1) : r.text[i] = ":" /\ r.text[i + 1] = " "}

PageOf(members, offset, limit) ==
    [i \in 1..Min(limit, Max(0, Len(members) - offset)) |-> members[offset + i]]

RECURSIVE Pages(_, _, _)
\* The pages at offsets offset, offset + limit, ... joined, until one is empty.
Pages(members, offset, limit) ==
    LET page == ZRange(members, RangeStart(offset, limit), RangeEnd(offset, limit))
    IN  IF page = <<>> \/ offset > Len(members) THEN <<>>
        ELSE page \o Pages(members, offset + limit, limit)

\* C8: for limit >= 1, list_sessions returns the cardinality of the index and
\* the ids at positions offset .. offset + limit - 1, min(limit, max(0, C -
\* offset)) of them, whatever user_id is; the pages at offsets 0, limit,
\* 2*limit, ... partition the index.
C8_Pagination ==
    /\ (last.op = "list" /\ last.limit >= 1)
       => /\ last.total = Len(last.ranged)
          /\ last.ids = PageOf(last.ranged, last.offset, last.limit)
          /\ Len(last.ids) = Min(last.limit, Max(0, last.total - last.offset))
    /\ \A n \in Namespaces, limit \in 1..MaxIndex : Pages(index[n], 0, limit) = index[n]

\* An index of three sessions was listed with limit 2 from offset 2 for a
\* user, and the last session came back.
C8_Witness ==
    /\ last.op = "list" /\ last.limit = 2 /\ last.offset = 2
    /\ last.user_id /= None
    /\ last.total = 3
    /\ Len(last.ids) = 1

\* C9 as stated: list_sessions returns at most limit ids, for every limit
\* >= 0 and offset >= 0.
C9_AtMostLimit ==
    last.op = "list" => Len(last.ids) <= last.limit

\* C10: the count and the page list_sessions returns are those of one state
\* of the index, although other components add and remove sessions while the
\* call is in flight.
C10_OneSnapshot ==
    last.op = "list"
    => /\ last.counted = last.ranged
       /\ last.total = ZCard(last.counted)
       /\ last.ids = ZRange(last.counted, RangeStart(last.offset, last.limit),
                            RangeEnd(last.offset, last.limit))

\* A listing returned the count and a page of a non-empty index that is not
\* the index the call was queued against.
C10_Witness ==
    /\ last.op = "list"
    /\ last.total >= 2
    /\ last.ids /= <<>>
    /\ last.queued /= last.ranged

\* C11: delete_working_memory is idempotent and narrowly scoped. A delete
\* leaves the session index, long-term memory and every other key as they
\* were; a delete the store carries out raises nothing and leaves the key
\* absent, whether or not it existed; a delete of an absent key changes
\* nothing at all, so a second delete leaves the state of the first.
C11_DeleteScoped ==
    [][(last'.op = "delete" /\ now' = now) =>
          /\ index' = index
          /\ ltm' = ltm
          /\ \A k \in KeySpace \ {last'.key} : store'[k] = store[k]
          /\ store'[last'.key] \in {store[last'.key], Nothing}
          /\ last'.fault = "none" =>
                (last'.error = "none" /\ store'[last'.key] = Nothing)
          /\ ~IsSome(store[last'.key]) => store' = store]_vars

\* A delete of an existing key has succeeded while another key holds a
\* document and the deleted session is in the session index.
C11_Witness ==
    /\ last.op = "delete" /\ last.error = "none" /\ last.existed
    /\ last.key = WorkingMemoryKey("s1", None, None)
    /\ IsSome(store[WorkingMemoryKey("s2", None, None)])
    /\ "s1" \in Range(index[SessionsKey(None)])

\* A document without the fields named.
Without(doc, fields) == [f \in (DOMAIN doc) \ fields |-> doc[f]]

\* The last call is a get that repeats the get before it: same arguments, no
\* call between, both answered from `source`, the search (if any) returning
\* the same records.
Repeated(source) ==
    /\ last.op = "get" /\ IsSome(last.prev)
    /\ last.source = source /\ Value(last.prev).source = source

\* C12 (as stated): two calls of get_working_memory with the same arguments
\* and no set between return documents identical in every field except
\* last_accessed, from the store and from reconstruction alike.
C12_GetIdempotent ==
    \A source \in {"store", "long_term"} :
        Repeated(source) =>
            Without(Value(last.doc), {"last_accessed"})
                = Without(Value(last.prev).doc, {"last_accessed"})

\* C12 (amended): two such calls answered from the store return the same
\* document, last_accessed included; two answered by reconstruction from the
\* same search result return documents identical except in last_accessed and
\* updated_at, which are the time of each call, and in created_at when the
\* oldest message has no persisted_at.
C12_GetRepeatable ==
    /\ Repeated("store") => Value(last.doc) = Value(last.prev).doc
    /\ Repeated("long_term") =>
          LET doc == Value(last.doc)
              before == Value(last.prev).doc
              stamps == {"last_accessed", "updated_at", "created_at"}
          IN  /\ Without(doc, stamps) = Without(before, stamps)
              /\ IsSome(doc.messages[1].persisted_at) =>
                    doc.created_at = before.created_at

\* Two reconstructions from the same search result at different times, the
\* oldest message carrying a persisted_at.
C12_Witness ==
    /\ Repeated("long_term")
    /\ Value(last.doc).updated_at /= Value(last.prev).doc.updated_at
    /\ IsSome(Value(last.doc).messages[1].persisted_at)

\* What a read of the key with these arguments returns when the store holds
\* the document wm as a set begun at time t has serialized it.
ReadOf(wm, t, session_id, namespace, limit) ==
    Deserialize(Serialize(wm, t), session_id, namespace, limit)

\* C13: last writer wins, with full replacement. Once the store command of a
\* set has reached the store, the key holds exactly the serialized document
\* of that set, whatever it held before and whenever the call began, until
\* the key expires or another write arrives; and every read that hits
\* returns the whole document of one set call: that of the last write to
\* arrive when the read follows it.
C13_LastWriterWins ==
    /\ (last.op = "set" /\ last.error = "none") =>
          LET entry == store[last.key]
          IN  /\ IsSome(entry) => Value(entry).val = Serialize(last.doc, last.at)
              /\ ~IsSome(entry) => IsSome(last.doc.ttl_seconds)
    /\ (last.op = "get" /\ last.source = "store") =>
          /\ \E wm \in ConcurrentDocuments, t \in 0..MaxClock :
                Value(last.doc) =
                    ReadOf(wm, t, last.session_id, last.namespace, last.limit)
          /\ IsSome(last.since) =>
                Value(last.doc) =
                    ReadOf(Value(last.since).doc, Value(last.since).at,
                           last.session_id, last.namespace, last.limit)

\* All sets have completed, and the write that arrived last came from the
\* call that began first: it replaced a document stamped later than its own,
\* with other messages.
C13_Witness ==
    /\ last.op = "set" /\ last.error = "none" /\ inflight = {}
    /\ IsSome(last.replaced)
    /\ Value(last.replaced).updated_at > EpochSeconds(last.at)
    /\ Value(last.replaced).messages /= <<>>
    /\ last.doc.messages = <<>>
    /\ IsSome(store[last.key])

\* C14: get_working_memory never writes to the store. Every get leaves the
\* contents and the expiries of the store as they were, on a hit and on a
\* miss, with or without a reconstructed document; and a get that finds the
\* key absent with reconstruction enabled calls the long-term search, every
\* time.
C14_GetNeverWrites ==
    [][(last'.op = "get" /\ now' = now) =>
          /\ store' = store
          /\ (last'.fault = "none" /\ ~IsSome(store[last'.key])
                 /\ reconstructEnabled) => last'.searched]_vars

\* A document set with a TTL has expired; two reads in a row have each called
\* the search and returned a reconstructed document, and the key is still
\* absent.
C14_Witness ==
    /\ last.op = "get" /\ last.searched /\ last.source = "long_term"
    /\ IsSome(last.prev) /\ Value(last.prev).source = "long_term"
    /\ IsSome(last.since)
    /\ IsSome(DocumentSet.ttl_seconds)
    /\ Expired(SetAt, Value(DocumentSet.ttl_seconds), last.at)
    /\ ~IsSome(store[last.key])

\* C15: the store has priority and reconstruction is gated. A get calls the
\* long-term search only when the key is absent from the store and the
\* feature is enabled; when the store answers and holds the key, the stored
\* document is returned and the search is not called; when the key is absent
\* and the feature is disabled, nothing is returned and nothing is searched,
\* whatever long-term memory holds.
C15_StoreFirst ==
    [][(last'.op = "get" /\ now' = now) =>
          LET present == IsSome(store[last'.key])
          IN  /\ last'.searched => (~present /\ reconstructEnabled)
              /\ (present /\ last'.fault \notin {"conn", "read"}) =>
                    /\ ~last'.searched
                    /\ last'.source = "store"
                    /\ Value(last'.doc) =
                          Deserialize(Value(store[last'.key]).val, last'.session_id,
                                      last'.namespace, last'.limit)
              /\ (~present /\ ~reconstructEnabled) =>
                    (~last'.searched /\ ~IsSome(last'.doc))]_vars

\* A read answered from the store, without a search, while reconstruction is
\* enabled and long-term memory holds well-formed messages of the session.
C15_Witness ==
    /\ last.op = "get" /\ last.source = "store" /\ ~last.searched
    /\ reconstructEnabled
    /\ \E r \in Matching(ltm, last.session_id, last.user_id, last.namespace) :
          HasSeparator(r.text)

\* C16: reconstruction is all-or-nothing on failure. When a get calls the
\* long-term search and the search raises, or the conversion of a returned
\* record raises, the get returns absent: never a document built from the
\* records converted before the error.
C16_AllOrNothing ==
    (last.op = "get" /\ last.searched /\ last.fault \in {"search", "parse"})
        => (~IsSome(last.doc) /\ last.outcome = "absent")

\* The conversion raised after a well-formed record had been converted, and
\* the get returned absent.
C16_Witness ==
    /\ last.op = "get" /\ last.searched /\ last.fault = "parse"
    /\ Len(last.results) >= 2
    /\ HasSeparator(last.results[1].text)
    /\ last.outcome = "absent"

\* The step is a set or a delete during which the store failed.
StoreFailed ==
    /\ last'.op \in {"set", "delete"} /\ now' = now
    /\ last'.fault \in {"refused", "lost"}
    /\ last'.op = "set" => AllMemoriesHaveId(last'.doc)

\* The entry a set leaves under its key when its write is carried out.
EntryOf(doc, at) ==
    Some([val |-> Serialize(doc, at),
          exp |-> IF IsSome(doc.ttl_seconds)
                  THEN Some(at + Value(doc.ttl_seconds) * TicksPerSecond)
                  ELSE Nothing])

\* C17 (as stated): when the store fails during set_working_memory or
\* delete_working_memory, the call raises and the key is as it was before
\* the call: its previous value, or absent.
C17_FailedWriteLeavesPrevious ==
    [][StoreFailed => (last'.error /= "none" /\ store' = store)]_vars

\* C17 (amended): when the store fails during a set or a delete, the call
\* raises, no other key changes, and the key is either as it was before the
\* call or holds the whole outcome of the call (the complete new document
\* with its expiry; absent after a delete): never anything else.
C17_FailedWriteNoPartialState ==
    [][StoreFailed =>
          /\ last'.error = "StoreError"
          /\ \A k \in KeySpace \ {last'.key} : store'[k] = store[k]
          /\ store'[last'.key] \in
                {store[last'.key],
                 IF last'.op = "set" THEN EntryOf(last'.doc, last'.at)
                 ELSE Nothing}]_vars

\* A set has raised the store's error, and the key holds its document, with
\* no expiry, in place of an entry that had one.
C17_Witness ==
    /\ last.op = "set" /\ last.fault = "lost" /\ last.error = "StoreError"
    /\ IsSome(last.had)
    /\ store[last.key] = EntryOf(last.doc, last.at)
    /\ ~IsSome(last.doc.ttl_seconds)

\* Every element of a sequence of memory records has a non-empty id.
EveryIdPresent(memories) == \A i \in 1..Len(memories) : memories[i].id /= ""

\* C18: starting from an empty store, whatever calls of set, get, delete and
\* list_sessions have run, failed ones included, every document in the store
\* has a non-empty id on every element of its memories, and so has every
\* document a get returns, from the store or from reconstruction.
C18_MemoriesHaveId ==
    /\ \A k \in KeySpace :
          IsSome(store[k]) => EveryIdPresent(Value(store[k]).val.memories)
    /\ (last.op = "get" /\ IsSome(last.doc)) =>
          EveryIdPresent(Value(last.doc).memories)

\* A set of a document with a memory record without id has been rejected,
\* while its key holds a document with memory records.
C18_Witness ==
    /\ last.op = "set" /\ last.error = "ValueError"
    /\ ~EveryIdPresent(last.doc.memories)
    /\ IsSome(store[last.key])
    /\ Value(store[last.key]).val.memories /= <<>>

\* C19: the expiry of a key is that of the most recent successful set. After
\* a set with ttl_seconds = T at time t, and until the next write of the
\* key, the key holds the document until T seconds after t and is gone from
\* then on, whatever expiry it had before; after a set with ttl_seconds =
\* null it holds the document for good, also when an earlier set gave the key
\* a TTL.
C19_ExpiryOfLatestSet ==
    (last.op = "set" /\ last.error = "none") =>
        LET ttl == last.doc.ttl_seconds
        IN  IF IsSome(ttl) /\ now >= last.at + Value(ttl) * TicksPerSecond
            THEN store[last.key] = Nothing
            ELSE store[last.key] = EntryOf(last.doc, last.at)

\* A set without TTL replaced an entry that had one; the time of that expiry
\* has passed and the key still holds the document.
C19_Witness ==
    /\ last.op = "set" /\ last.error = "none"
    /\ ~IsSome(last.doc.ttl_seconds)
    /\ IsSome(last.had) /\ now >= Value(last.had)
    /\ IsSome(store[last.key])

\* C20: no operation of this module modifies the session index. A step of
\* set_working_memory, get_working_memory, delete_working_memory or
\* list_sessions leaves the index of every namespace as it was, so only what
\* another component put in the index is listed: the ids list_sessions
\* returns are members of the index as that component left it, whether or
\* not the store holds a document of the session.
C20_IndexUntouched ==
    [][/\ last'.op \in {"set", "get", "delete", "list", "none"} => index' = index
       /\ (last'.op = "list" /\ pipe.pc = "in_exec") =>
             Range(last'.ids) \subseteq Range(index[SessionsKey(last'.namespace)])]_vars

\* The store holds a document of s1, set through this module, and none of
\* s2; list_sessions has returned s2, which another component indexed, and
\* not s1.
C20_Witness ==
    /\ last.op = "list" /\ last.ids = <<"s2">> /\ last.total = 1
    /\ IsSome(store[WorkingMemoryKey("s1", None, None)])
    /\ ~IsSome(store[WorkingMemoryKey("s2", None, None)])

=============================================================================
